---- MODULE Spec2Model ----
(***************************************************************************)
(* svg_path_simplifier: the svgcom text format (src/src/svgcom.rs), the    *)
(* first generation of the command line tool (src/src/main.rs) and the     *)
(* autocut geometry engine (src/src/svgps.rs).                             *)
(*                                                                         *)
(* Text is a sequence of one-character strings.  Coordinates are f64       *)
(* values with an integral value; their Display form is the decimal        *)
(* numeral, which is what Rust prints for such a value.                    *)
(***************************************************************************)
EXTENDS Integers, Sequences, FiniteSets, TLC

VARIABLES
    file,       \* the svgcom file on disk: a text, or NoFile
    written,    \* what the last writer was given (writer, size, elements)
    parsed,     \* what the last reader returned (reader, status, size, elements)
    ac_paths,           \* autocut_paths: the paths of the document, in draw order
    ac_stage,           \* autocut_paths: how far it has come
    ac_intersections,   \* autocut_paths: intersections
    ac_cut_paths,       \* autocut_paths: cut_paths
    ac_covering_shapes, \* autocut_paths: covering_shapes
    ac_result,          \* autocut_paths: the paths it returns
    ac_z_indices,       \* remove_covered_paths: the z_index used for each cut path
    query,      \* a call of one function of the geometry, with its result
    run,        \* one run of generate_from_svg or render_to_svg: where it is
    out_file    \* the file at the output path of that run: is it there, its text

comVars == <<file, written, parsed>>
geoVars == <<ac_paths, ac_stage, ac_intersections, ac_cut_paths, ac_covering_shapes,
             ac_result, ac_z_indices>>
vars == <<file, written, parsed, ac_paths, ac_stage, ac_intersections, ac_cut_paths,
          ac_covering_shapes, ac_result, ac_z_indices, query, run, out_file>>
runVars == <<run, out_file>>

(***************************************************************************)
(* Bounds of the model.                                                    *)
(***************************************************************************)
MaxCmds == 3
MaxPaths == 2
MaxCutsPerSegment == 2
MaxWinding == 3
GridMax == 8
MaxDraw == 4
HitGrid == 2

(***************************************************************************)
(* Text helpers: Rust's Display for integers, str::parse, str::lines,      *)
(* str::split_whitespace.                                                  *)
(***************************************************************************)
NoFile == "NoFile"
NL == "\n"
SP == " "
DigitChars == <<"0", "1", "2", "3", "4", "5", "6", "7", "8", "9">>

IsDigit(c) == \E i \in 1..10 : DigitChars[i] = c

DigitVal(c) == (CHOOSE i \in 1..10 : DigitChars[i] = c) - 1

RECURSIVE FmtNat(_)
FmtNat(n) ==
    IF n < 10 THEN <<DigitChars[n + 1]>>
    ELSE FmtNat(n \div 10) \o <<DigitChars[(n % 10) + 1]>>

\* "{}" of an f64 with an integral value
FmtF64(x) == IF x < 0 THEN <<"-">> \o FmtNat(-x) ELSE FmtNat(x)

RECURSIVE NatVal(_)
NatVal(ds) ==
    IF Len(ds) = 0 THEN 0
    ELSE 10 * NatVal(SubSeq(ds, 1, Len(ds) - 1)) + DigitVal(ds[Len(ds)])

AllDigits(ds) == Len(ds) > 0 /\ \A i \in 1..Len(ds) : IsDigit(ds[i])

ParseErr == [ok |-> FALSE, val |-> 0]

\* str::parse::<u32>: an optional '+', then decimal digits (the numerals of
\* the model stay far below u32::MAX)
ParseU32(tok) ==
    LET body == IF Len(tok) > 0 /\ tok[1] = "+" THEN Tail(tok) ELSE tok
    IN  IF AllDigits(body) THEN [ok |-> TRUE, val |-> NatVal(body)] ELSE ParseErr

\* str::parse::<f64> over the alphabet of the model: an optional sign, then digits
ParseF64(tok) ==
    LET signed == Len(tok) > 0 /\ tok[1] \in {"+", "-"}
        body == IF signed THEN Tail(tok) ELSE tok
    IN  IF AllDigits(body)
        THEN [ok |-> TRUE,
              val |-> IF signed /\ tok[1] = "-" THEN -NatVal(body) ELSE NatVal(body)]
        ELSE ParseErr

\* pieces of s between the separators sep (the empty pieces included)
RECURSIVE SplitFrom(_, _, _, _)
SplitFrom(s, sep, start, i) ==
    IF i > Len(s) THEN <<SubSeq(s, start, Len(s))>>
    ELSE IF s[i] = sep
    THEN <<SubSeq(s, start, i - 1)>> \o SplitFrom(s, sep, i + 1, i + 1)
    ELSE SplitFrom(s, sep, start, i + 1)

SplitOn(s, sep) == SplitFrom(s, sep, 1, 1)

\* str::lines: a final line terminator is optional
Lines(text) ==
    LET pieces == SplitOn(text, NL)
    IN  IF pieces[Len(pieces)] = <<>> THEN SubSeq(pieces, 1, Len(pieces) - 1)
        ELSE pieces

\* str::split_whitespace
split_whitespace(line) == SelectSeq(SplitOn(line, SP), LAMBDA t : t # <<>>)

RECURSIVE Concat(_)
Concat(ss) == IF Len(ss) = 0 THEN <<>> ELSE Head(ss) \o Concat(Tail(ss))

RECURSIVE JoinWith(_, _)
JoinWith(ss, sep) ==
    IF Len(ss) = 0 THEN <<>>
    ELSE IF Len(ss) = 1 THEN ss[1]
    ELSE ss[1] \o sep \o JoinWith(Tail(ss), sep)

(***************************************************************************)
(* Data.  A usvg path node: its draw commands, the flat coordinate list     *)
(* (2 per MoveTo/LineTo, 6 per CurveTo), a transform (a translation), the   *)
(* fill rule or "None", the stroke and the visibility.  A kurbo::PathEl is  *)
(* [el, pts]; an SvgCom is [view_size, commands].                           *)
(***************************************************************************)
PathElOf(kind, pts) == [el |-> kind, pts |-> pts]

ClosePathEl == PathElOf("ClosePath", <<>>)

\* usvg::Transform::apply
transform_apply(transform, x, y) == <<x + transform[1], y + transform[2]>>

\* number of coordinates a usvg::PathCommand owns in PathData::points
CommandArity(command) ==
    CASE command = "MoveTo" -> 2
      [] command = "LineTo" -> 2
      [] command = "CurveTo" -> 6
      [] OTHER -> 0

\* the points of one command, read pairwise from `coords` and transformed
RECURSIVE get_points(_, _, _)
get_points(coords, n, transform) ==
    IF n = 0 THEN <<>>
    ELSE <<transform_apply(transform, coords[1], coords[2])>>
         \o get_points(SubSeq(coords, 3, Len(coords)), n - 2, transform)

(***************************************************************************)
(* src/src/svgcom.rs                                                       *)
(***************************************************************************)
\* f64 -> u32 of a value that is already integral: `as` saturates at 0
CeilAsU32(v) == IF v < 0 THEN 0 ELSE v

SvgCom_new(width, height) ==
    [view_size |-> <<CeilAsU32(width), CeilAsU32(height)>>, commands |-> <<>>]

RECURSIVE read_from_svg_commands(_, _, _)
read_from_svg_commands(commands, coords, transform) ==
    IF Len(commands) = 0 THEN <<>>
    ELSE LET n == CommandArity(Head(commands))
         IN  <<PathElOf(Head(commands), get_points(coords, n, transform))>>
             \o read_from_svg_commands(Tail(commands),
                                       SubSeq(coords, n + 1, Len(coords)), transform)

read_from_svg_path(me, svg_path) ==
    [me EXCEPT !.commands =
        @ \o read_from_svg_commands(svg_path.commands, svg_path.points,
                                    svg_path.transform)]

RECURSIVE read_from_svg_paths(_, _)
read_from_svg_paths(me, svg_paths) ==
    IF Len(svg_paths) = 0 THEN me
    ELSE read_from_svg_paths(read_from_svg_path(me, Head(svg_paths)), Tail(svg_paths))

RECURSIVE points_count_of(_)
points_count_of(commands) ==
    IF Len(commands) = 0 THEN 0
    ELSE (CASE Head(commands).el = "MoveTo" -> 1
            [] Head(commands).el = "LineTo" -> 1
            [] Head(commands).el = "CurveTo" -> 3
            [] OTHER -> 0)
         + points_count_of(Tail(commands))

points_count(me) == points_count_of(me.commands)

\* a plausible slip: the points are counted, not the coordinates
coordinates_count_points(me) == points_count(me)

coordinates_count(me) == points_count(me) * 2

format_svgcom_metrics(me) ==
    FmtNat(me.view_size[1]) \o <<SP>> \o FmtNat(me.view_size[2]) \o <<SP>>
    \o FmtNat(Len(me.commands)) \o <<SP>> \o FmtNat(coordinates_count(me)) \o <<NL>>

CommandLetter(el) ==
    CASE el.el = "MoveTo" -> "M"
      [] el.el = "LineTo" -> "L"
      [] el.el = "CurveTo" -> "C"
      [] OTHER -> "Z"

format_svgcom_commands(me) ==
    [i \in 1..Len(me.commands) |-> CommandLetter(me.commands[i])] \o <<NL>>

\* the coordinates of one element, each with "{}", separated by one space
ElCoords(el) == Concat([i \in 1..Len(el.pts) |-> <<el.pts[i][1], el.pts[i][2]>>])

FmtCoords(coords) == JoinWith([i \in 1..Len(coords) |-> FmtF64(coords[i])], <<SP>>)

format_svgcom_points(me) ==
    Concat([i \in 1..Len(me.commands) |->
                (IF i # 1 THEN <<SP>> ELSE <<>>) \o FmtCoords(ElCoords(me.commands[i]))])
    \o <<NL>>

format_svgcom(me) ==
    format_svgcom_metrics(me) \o format_svgcom_commands(me) \o format_svgcom_points(me)

to_svgcom(me) == format_svgcom(me)

\* map(parse).collect::<Result<Vec<_>, Error>>(): the parsed values, or the
\* error of a token that does not parse
CollectResults(parsed_tokens) ==
    IF \E i \in 1..Len(parsed_tokens) : ~parsed_tokens[i].ok
    THEN [ok |-> FALSE, val |-> <<>>]
    ELSE [ok |-> TRUE, val |-> [i \in 1..Len(parsed_tokens) |-> parsed_tokens[i].val]]

ParseAllU32(tokens) == CollectResults([i \in 1..Len(tokens) |-> ParseU32(tokens[i])])

ParseAllF64(tokens) == CollectResults([i \in 1..Len(tokens) |-> ParseF64(tokens[i])])

parse_svgcom_metrics(line) ==
    LET metrics == ParseAllU32(split_whitespace(line))
    IN  IF ~metrics.ok THEN metrics
        ELSE IF Len(metrics.val) # 4 THEN [ok |-> FALSE, val |-> <<>>]
        ELSE metrics

parse_svgcom_commands(line) == line

parse_svgcom_coords(line) == ParseAllF64(split_whitespace(line))

\* a plausible slip: both counts must be wrong for the header to be refused
validate_svgcom_metrics_both(metrics, commands, coords) ==
    ~(Len(commands) # metrics[3] /\ Len(coords) # metrics[4])

\* TRUE stands for Ok(()), FALSE for the Err
validate_svgcom_metrics(metrics, commands, coords) ==
    ~(Len(commands) # metrics[3] \/ Len(coords) # metrics[4])

SvgcomArity(cmd) ==
    CASE cmd = "M" -> 2
      [] cmd = "L" -> 2
      [] cmd = "C" -> 6
      [] cmd = "Z" -> 0
      [] OTHER -> -1

SvgcomEl(cmd) ==
    CASE cmd = "M" -> "MoveTo"
      [] cmd = "L" -> "LineTo"
      [] cmd = "C" -> "CurveTo"
      [] OTHER -> "ClosePath"

\* the loop of read_svgcom_data; get_point unwraps the coordinate iterator
RECURSIVE read_svgcom_loop(_, _, _)
read_svgcom_loop(commands, coords, acc) ==
    IF Len(commands) = 0 THEN [status |-> "Ok", commands |-> acc]
    ELSE LET n == SvgcomArity(Head(commands))
         IN  IF n = -1 THEN [status |-> "Err", commands |-> <<>>]
             ELSE IF Len(coords) < n THEN [status |-> "Panic", commands |-> <<>>]
             ELSE read_svgcom_loop(
                      Tail(commands), SubSeq(coords, n + 1, Len(coords)),
                      Append(acc, PathElOf(SvgcomEl(Head(commands)),
                                           get_points(coords, n, <<0, 0>>))))

read_svgcom_data(me, commands, coords) ==
    LET r == read_svgcom_loop(commands, coords, me.commands)
    IN  [status |-> r.status, view_size |-> me.view_size, commands |-> r.commands]

ReadErr == [status |-> "Err", view_size |-> <<0, 0>>, commands |-> <<>>]

from_svgcom_str(source) ==
    LET lines == Lines(source)
    IN  IF Len(lines) < 3 THEN ReadErr
        ELSE LET metrics == parse_svgcom_metrics(lines[1])
                 commands == parse_svgcom_commands(lines[2])
                 coords == parse_svgcom_coords(lines[3])
             IN  IF ~metrics.ok THEN ReadErr
                 ELSE IF ~coords.ok THEN ReadErr
                 ELSE IF ~validate_svgcom_metrics(metrics.val, commands, coords.val)
                      THEN ReadErr
                 ELSE read_svgcom_data(SvgCom_new(metrics.val[1], metrics.val[2]),
                                       commands, coords.val)

(***************************************************************************)
(* src/src/main.rs: the first generation of the tool, which writes and     *)
(* reads the command file itself.  A PathData is [view_size, coordinates,  *)
(* commands], its commands the letters "M", "L", "C".                      *)
(***************************************************************************)
PathData_new == [view_size |-> <<0, 0>>, coordinates |-> <<>>, commands |-> <<>>]

\* the loop of collect_path over the commands of one path
RECURSIVE collect_commands(_, _, _, _, _, _)
collect_commands(commands, coords, transform, initial_point, last_point, output) ==
    IF Len(commands) = 0 THEN output
    ELSE LET command == Head(commands)
             n == CommandArity(command)
             ps == get_points(coords, n, transform)
             rest == SubSeq(coords, n + 1, Len(coords))
             push(out, pts, letter) ==
                 [out EXCEPT !.coordinates = @ \o Concat(pts),
                             !.commands = Append(@, letter)]
         IN  CASE command = "MoveTo" ->
                    collect_commands(Tail(commands), rest, transform, ps[1], ps[1],
                                     push(output, ps, "M"))
               [] command = "LineTo" ->
                    collect_commands(Tail(commands), rest, transform, initial_point,
                                     ps[1], push(output, ps, "L"))
               [] command = "CurveTo" ->
                    collect_commands(Tail(commands), rest, transform, initial_point,
                                     ps[3], push(output, ps, "C"))
               [] OTHER ->
                    IF last_point = initial_point
                    THEN collect_commands(Tail(commands), rest, transform,
                                          initial_point, last_point, output)
                    ELSE collect_commands(Tail(commands), rest, transform,
                                          initial_point, last_point,
                                          push(output, <<initial_point>>, "L"))

collect_path(svg_node, output) ==
    IF ~svg_node.visible THEN output
    ELSE collect_commands(svg_node.commands, svg_node.points, svg_node.transform,
                          <<0, 0>>, <<0, 0>>, output)

RECURSIVE collect_paths(_, _)
collect_paths(nodes, output) ==
    IF Len(nodes) = 0 THEN output
    ELSE collect_paths(Tail(nodes), collect_path(Head(nodes), output))

\* generate, up to write_path
main_generate(view_size, nodes) ==
    collect_paths(nodes, [PathData_new EXCEPT !.view_size = view_size])

write_path(data) ==
    FmtF64(data.view_size[1]) \o <<SP>> \o FmtF64(data.view_size[2]) \o <<SP>>
    \o FmtNat(Len(data.coordinates)) \o <<SP>> \o FmtNat(Len(data.commands)) \o <<NL>>
    \o FmtCoords(data.coordinates) \o <<NL>>
    \o data.commands

RenderArity(cmd) ==
    CASE cmd = "M" -> 2
      [] cmd = "L" -> 2
      [] cmd = "C" -> 6
      [] OTHER -> 0

RenderPanic == [status |-> "Panic", view_size |-> <<0, 0>>, commands |-> <<>>]

\* the loop of render; coords is the lazy iterator of parsed tokens, each
\* next().unwrap() panics on a missing or a malformed token
RECURSIVE render_loop(_, _, _)
render_loop(commands, coords, acc) ==
    IF Len(commands) = 0 THEN [status |-> "Ok", commands |-> acc]
    ELSE LET cmd == Head(commands)
             n == RenderArity(cmd)
             taken == ParseAllF64(SubSeq(coords, 1, n))
         IN  IF cmd \notin {"M", "L", "C"}
             THEN render_loop(Tail(commands), coords, acc)
             ELSE IF Len(coords) < n \/ ~taken.ok
             THEN [status |-> "Panic", commands |-> <<>>]
             ELSE render_loop(Tail(commands), SubSeq(coords, n + 1, Len(coords)),
                              Append(acc, PathElOf(SvgcomEl(cmd),
                                                   get_points(taken.val, n, <<0, 0>>))))

render(input) ==
    LET lines == Lines(input)
    IN  IF Len(lines) < 1 THEN RenderPanic
        ELSE LET metrics == ParseAllU32(split_whitespace(lines[1]))
             IN  IF ~metrics.ok \/ Len(lines) < 3 \/ Len(metrics.val) < 2
                 THEN RenderPanic
                 ELSE LET r == render_loop(lines[3], split_whitespace(lines[2]), <<>>)
                      IN  [status |-> r.status,
                           view_size |-> IF r.status = "Ok"
                                         THEN <<metrics.val[1], metrics.val[2]>>
                                         ELSE <<0, 0>>,
                           commands |-> r.commands]

\* the elements a PathData holds: its letters with their coordinates
RECURSIVE PathDataElements(_, _)
PathDataElements(commands, coords) ==
    IF Len(commands) = 0 THEN <<>>
    ELSE LET n == RenderArity(Head(commands))
         IN  <<PathElOf(SvgcomEl(Head(commands)), get_points(coords, n, <<0, 0>>))>>
             \o PathDataElements(Tail(commands), SubSeq(coords, n + 1, Len(coords)))

(***************************************************************************)
(* Inputs of the text format: documents (lists of usvg paths), SvgCom       *)
(* values and files that no writer of the repository produced.             *)
(***************************************************************************)
Origin == <<0, 0>>
Far == <<12, -3>>

CmdChoices ==
    {<<"MoveTo", <<0, 0>>>>, <<"MoveTo", <<12, -3>>>>,
     <<"LineTo", <<12, -3>>>>,
     <<"CurveTo", <<1, 2, 3, 4, 12, -3>>>>,
     <<"ClosePath", <<>>>>}

NodeOf(choices, transform) ==
    [commands |-> [i \in 1..Len(choices) |-> choices[i][1]],
     points |-> Concat([i \in 1..Len(choices) |-> choices[i][2]]),
     transform |-> transform, visible |-> TRUE]

\* usvg path data starts with a MoveTo
ChoiceSeqs ==
    UNION {{c \in [1..n -> CmdChoices] : c[1][1] = "MoveTo"} : n \in 1..MaxCmds}

ComNodes == {NodeOf(c, <<0, 0>>) : c \in ChoiceSeqs}

SecondNodes ==
    {NodeOf(<<<<"MoveTo", <<0, 0>>>>, <<"LineTo", <<12, -3>>>>, <<"ClosePath", <<>>>>>>,
            <<2, 1>>),
     [NodeOf(<<<<"MoveTo", <<12, -3>>>>, <<"LineTo", <<0, 0>>>>>>, <<0, 0>>)
         EXCEPT !.visible = FALSE]}

Documents == {<<n>> : n \in ComNodes} \cup {<<n, m>> : n \in ComNodes, m \in SecondNodes}

ViewSizes == {<<100, 50>>, <<0, 7>>}

ElChoices ==
    {PathElOf("MoveTo", <<Origin>>), PathElOf("LineTo", <<Far>>), PathElOf("CurveTo", <<<<1, 2>>, <<3, 4>>, Far>>),
     ClosePathEl}

SvgComs ==
    {[view_size |-> v, commands |-> c] :
        v \in ViewSizes, c \in UNION {[1..n -> ElChoices] : n \in 0..MaxCmds}}

ForeignMetrics ==
    {<<"7", "5", FmtNat(nc)[1], FmtNat(nk)[1]>> : nc \in 0..2, nk \in {0, 2, 4}}
    \cup {<<"7", "5", "1">>, <<"7", "5", "1", "2", "2">>, <<"7", "x", "1", "2">>,
          <<"7", "-", "1", "2">>, <<>>}

ForeignCommands ==
    {<<>>, <<"M">>, <<"M", "L">>, <<"M", "X">>, <<"Z">>, <<"M", " ", "L">>}

ForeignCoords ==
    {<<>>, <<"0", "5">>, <<"0", "5", "-", "3", "1">>, <<"0", "x">>}

\* tokens of one character each (a "-" is followed by its digit), one space between
RECURSIVE SpellTokens(_)
SpellTokens(toks) ==
    IF Len(toks) = 0 THEN <<>>
    ELSE IF Len(toks) = 1 THEN toks
    ELSE IF toks[1] = "-" THEN <<"-">> \o SpellTokens(Tail(toks))
    ELSE <<toks[1], SP>> \o SpellTokens(Tail(toks))

ForeignTexts ==
    {SpellTokens(m) \o <<NL>> \o c \o <<NL>> \o SpellTokens(k) \o tail :
        m \in ForeignMetrics, c \in ForeignCommands, k \in ForeignCoords,
        tail \in {<<>>, <<NL>>, <<NL, "M">>}}
    \cup {SpellTokens(m) \o <<NL>> \o c : m \in ForeignMetrics, c \in ForeignCommands}
    \cup {<<>>}

(***************************************************************************)
(* The file and its writers and readers: one run of a writer on an output  *)
(* path that does not exist yet, then any number of runs of the readers.   *)
(***************************************************************************)
NotWritten == [writer |-> "none", view_size |-> <<0, 0>>, commands |-> <<>>]
NotParsed == [reader |-> "none", status |-> "none", view_size |-> <<0, 0>>,
              commands |-> <<>>]

ComIdle ==
    /\ file = NoFile
    /\ written = NotWritten
    /\ parsed = NotParsed

GeoIdle ==
    /\ ac_paths = <<>>
    /\ ac_stage = "idle"
    /\ ac_intersections = <<>>
    /\ ac_cut_paths = <<>>
    /\ ac_covering_shapes = <<>>
    /\ ac_result = <<>>
    /\ ac_z_indices = <<>>

NoQuery == [op |-> "none"]

NoOutput == [exists |-> FALSE, text |-> <<>>]

NoRun ==
    [command |-> "none", pc |-> "idle", input |-> <<>>, data |-> <<>>, result |-> "none",
     message |-> "", failure |-> "none", before |-> NoOutput]

RunIdle == run = NoRun /\ out_file = NoOutput

ComInit == ComIdle /\ GeoIdle /\ query = NoQuery /\ RunIdle

\* generate_from_svg without --autocut: SvgCom::new, read_from_svg_paths, to_svgcom
GenerateFromSvg ==
    \E size \in {<<100, 50>>}, doc \in Documents :
        LET svgcom == read_from_svg_paths(SvgCom_new(size[1], size[2]), doc)
        IN  /\ file = NoFile
            /\ file' = to_svgcom(svgcom)
            /\ written' = [writer |-> "svgcom", view_size |-> svgcom.view_size,
                           commands |-> svgcom.commands]
            /\ parsed' = NotParsed
            /\ UNCHANGED <<geoVars, query, runVars>>

\* SvgCom::to_svgcom of any SvgCom value
ToSvgcom ==
    \E svgcom \in SvgComs :
        /\ file = NoFile
        /\ file' = to_svgcom(svgcom)
        /\ written' = [writer |-> "svgcom", view_size |-> svgcom.view_size,
                       commands |-> svgcom.commands]
        /\ parsed' = NotParsed
        /\ UNCHANGED <<geoVars, query, runVars>>

\* main.rs: generate
MainGenerate ==
    \E size \in {<<100, 50>>}, doc \in Documents :
        LET data == main_generate(size, doc)
        IN  /\ file = NoFile
            /\ file' = write_path(data)
            /\ written' = [writer |-> "main", view_size |-> data.view_size,
                           commands |-> PathDataElements(data.commands,
                                                         data.coordinates)]
            /\ parsed' = NotParsed
            /\ UNCHANGED <<geoVars, query, runVars>>

\* a file from elsewhere
ForeignFile ==
    \E text \in ForeignTexts :
        /\ file = NoFile
        /\ file' = text
        /\ written' = [NotWritten EXCEPT !.writer = "foreign"]
        /\ parsed' = NotParsed
        /\ UNCHANGED <<geoVars, query, runVars>>

\* render_to_svg: SvgCom::from_svgcom_str of the input file
FromSvgcomStr ==
    /\ file # NoFile
    /\ LET r == from_svgcom_str(file)
       IN  parsed' = [reader |-> "svgcom", status |-> r.status,
                      view_size |-> r.view_size, commands |-> r.commands]
    /\ UNCHANGED <<file, written, geoVars, query, runVars>>

\* main.rs: render
MainRender ==
    /\ file # NoFile
    /\ LET r == render(file)
       IN  parsed' = [reader |-> "main", status |-> r.status,
                      view_size |-> r.view_size, commands |-> r.commands]
    /\ UNCHANGED <<file, written, geoVars, query, runVars>>

ComNext ==
    \/ GenerateFromSvg
    \/ ToSvgcom
    \/ MainGenerate
    \/ ForeignFile
    \/ FromSvgcomStr
    \/ MainRender

SpecCom == ComInit /\ [][ComNext]_vars

(***************************************************************************)
(* src/src/svgps.rs: the autocut geometry.                                 *)
(*                                                                         *)
(* Points have integer coordinates.  A kurbo::PathSeg is [kind, p0, p1]    *)
(* with kind "Line" or "Cubic"; the cubics of the model are straight (the  *)
(* control points lie at the thirds of the chord), so that eval,           *)
(* subsegment, the bounding box and the flattening are those of the chord. *)
(* A segment also records the original segment it is a piece of (idx) and  *)
(* the parameter range of that segment it covers (t0, t1).  Parameters are *)
(* fractions [n, d] with d > 0.                                            *)
(***************************************************************************)
Frac(n, d) == IF d < 0 THEN [n |-> -n, d |-> -d] ELSE [n |-> n, d |-> d]

FracZero == [n |-> 0, d |-> 1]
FracOne == [n |-> 1, d |-> 1]

FracLe(a, b) == a.n * b.d <= b.n * a.d
FracLt(a, b) == a.n * b.d < b.n * a.d
FracEq(a, b) == a.n * b.d = b.n * a.d

\* (0.0..=1.0).contains(&t)
InUnit(a) == 0 <= a.n /\ a.n <= a.d

Min(a, b) == IF a < b THEN a ELSE b
Max(a, b) == IF a > b THEN a ELSE b

SegOf(kind, p0, p1, idx) ==
    [kind |-> kind, p0 |-> p0, p1 |-> p1, idx |-> idx, t0 |-> FracZero, t1 |-> FracOne]

\* ParamCurve::eval of a straight segment (the cut points of the model are
\* grid points, so the division is exact)
eval(seg, t) ==
    <<seg.p0[1] + ((seg.p1[1] - seg.p0[1]) * t.n) \div t.d,
      seg.p0[2] + ((seg.p1[2] - seg.p0[2]) * t.n) \div t.d>>

\* twice eval(0.5): the midpoint, kept integral
eval_half2(seg) == <<seg.p0[1] + seg.p1[1], seg.p0[2] + seg.p1[2]>>

\* t0 + (t1 - t0) * t
Reparam(seg, t) ==
    Frac(seg.t0.n * seg.t1.d * t.d + (seg.t1.n * seg.t0.d - seg.t0.n * seg.t1.d) * t.n,
         seg.t0.d * seg.t1.d * t.d)

\* ParamCurve::subsegment(a..b)
subsegment(seg, a, b) ==
    [kind |-> seg.kind, p0 |-> eval(seg, a), p1 |-> eval(seg, b), idx |-> seg.idx,
     t0 |-> Reparam(seg, a), t1 |-> Reparam(seg, b)]

\* PathSeg::intersect_line: the intersections of `seg` with the probe `line`,
\* each [line_t, segment_t].  A line parallel to a Line segment gives none; a
\* line collinear with a cubic gives the root 0 of the degenerate equation.
intersect_line(seg, line) ==
    LET dx == line.p1[1] - line.p0[1]
        dy == line.p1[2] - line.p0[2]
        sx == seg.p1[1] - seg.p0[1]
        sy == seg.p1[2] - seg.p0[2]
        det == dx * sy - dy * sx
        tn == dx * (line.p0[2] - seg.p0[2]) - dy * (line.p0[1] - seg.p0[1])
        un == (seg.p0[1] - line.p0[1]) * sy - (seg.p0[2] - line.p0[2]) * sx
        len2 == dx * dx + dy * dy
        proj == (seg.p0[1] - line.p0[1]) * dx + (seg.p0[2] - line.p0[2]) * dy
    IN  IF det # 0
        THEN IF InUnit(Frac(tn, det)) /\ InUnit(Frac(un, det))
             THEN <<[line_t |-> Frac(un, det), segment_t |-> Frac(tn, det)]>>
             ELSE <<>>
        ELSE IF seg.kind = "Cubic" /\ tn = 0 /\ len2 # 0 /\ InUnit(Frac(proj, len2))
             THEN <<[line_t |-> Frac(proj, len2), segment_t |-> FracZero]>>
             ELSE <<>>

\* Shape::bounding_box: [x0, y0, x1, y1]
bounding_box(seg) ==
    [x0 |-> Min(seg.p0[1], seg.p1[1]), y0 |-> Min(seg.p0[2], seg.p1[2]),
     x1 |-> Max(seg.p0[1], seg.p1[1]), y1 |-> Max(seg.p0[2], seg.p1[2])]

\* Rect::intersect
Rect_intersect(a, b) ==
    LET x0 == Max(a.x0, b.x0)
        y0 == Max(a.y0, b.y0)
    IN  [x0 |-> x0, y0 |-> y0,
         x1 |-> Max(Min(a.x1, b.x1), x0), y1 |-> Max(Min(a.y1, b.y1), y0)]

bbox_intersect(bbox1, bbox2) ==
    LET intersection == Rect_intersect(bbox1, bbox2)
    IN  intersection.x1 - intersection.x0 > 0 /\ intersection.y1 - intersection.y0 > 0

\* the flattening of a straight cubic: its two end points
curve_to_points(curve) == <<curve.p0, curve.p1>>

get_line_intersection(intersected, intersecting) ==
    intersect_line(intersected, intersecting)

get_reverse_line_intersection(intersected, intersecting) ==
    LET found == intersect_line(intersecting, intersected)
    IN  [i \in 1..Len(found) |->
            [line_t |-> found[i].segment_t, segment_t |-> found[i].line_t]]

get_curve_intersection(intersected, intersecting) ==
    IF intersected.kind = "Line"
    THEN get_reverse_line_intersection(intersected, intersecting)
    ELSE IF ~bbox_intersect(bounding_box(intersected), bounding_box(intersecting))
    THEN <<>>
    ELSE LET points == curve_to_points(intersecting)
         IN  Concat([i \in 1..(Len(points) - 1) |->
                        intersect_line(intersected,
                                       SegOf("Line", points[i], points[i + 1], 0))])

get_segment_intersection(intersected, intersecting) ==
    IF intersecting.kind = "Line"
    THEN get_line_intersection(intersected, intersecting)
    ELSE get_curve_intersection(intersected, intersecting)

\* a stable sort by segment_t (Vec::sort_by)
RECURSIVE InsertSorted(_, _)
InsertSorted(sorted, x) ==
    IF Len(sorted) = 0 THEN <<x>>
    ELSE IF FracLt(x.segment_t, sorted[Len(sorted)].segment_t)
    THEN Append(InsertSorted(SubSeq(sorted, 1, Len(sorted) - 1), x), sorted[Len(sorted)])
    ELSE Append(sorted, x)

RECURSIVE SortBySegmentT(_)
SortBySegmentT(xs) ==
    IF Len(xs) = 0 THEN <<>>
    ELSE InsertSorted(SortBySegmentT(SubSeq(xs, 1, Len(xs) - 1)), xs[Len(xs)])

\* requires intersections to be sorted by segment_t
RECURSIVE cut_segment_from(_, _, _)
cut_segment_from(segment, intersections, last_t) ==
    IF Len(intersections) = 0 THEN <<subsegment(segment, last_t, FracOne)>>
    ELSE <<subsegment(segment, last_t, Head(intersections).segment_t)>>
         \o cut_segment_from(segment, Tail(intersections), Head(intersections).segment_t)

\* a plausible slip: the piece after the last intersection is forgotten
cut_segment_no_tail(segment, intersections) ==
    LET pieces == cut_segment_from(segment, intersections, FracZero)
    IN  SubSeq(pieces, 1, Len(pieces) - 1)

cut_segment(segment, intersections) == cut_segment_from(segment, intersections, FracZero)

(***************************************************************************)
(* SvgPathNode, Path and CoveringShape.  An SvgPathNode is the usvg node    *)
(* with its identity (id); two nodes are equal when they are the same node. *)
(***************************************************************************)
is_closed(node) ==
    Len(node.commands) > 0 /\ node.commands[Len(node.commands)] = "ClosePath"

\* a plausible slip: the fill is not asked for
can_cover_closed(node) == is_closed(node)

can_cover(node) == is_closed(node) /\ node.fill # "None"

\* Rust's %: the remainder has the sign of the dividend
RustRem(a, b) == IF a >= 0 THEN a % b ELSE -((-a) % b)

\* a plausible slip: odd is tested as a remainder of 1
test_winding_positive(node, winding) ==
    CASE node.fill = "EvenOdd" -> RustRem(winding, 2) = 1
      [] node.fill = "NonZero" -> winding # 0
      [] OTHER -> FALSE

test_winding(node, winding) ==
    CASE node.fill = "EvenOdd" -> RustRem(winding, 2) # 0
      [] node.fill = "NonZero" -> winding # 0
      [] OTHER -> FALSE

Path_new(svg_path) == [source |-> svg_path, segments |-> <<>>]

\* BezPath::segments over the commands of the node: a ClosePath gives the
\* closing line unless the current point is the start point
RECURSIVE segments_of(_, _, _, _, _)
segments_of(commands, coords, transform, start, last) ==
    IF Len(commands) = 0 THEN <<>>
    ELSE LET command == Head(commands)
             n == CommandArity(command)
             ps == get_points(coords, n, transform)
             rest == SubSeq(coords, n + 1, Len(coords))
         IN  CASE command = "MoveTo" ->
                    segments_of(Tail(commands), rest, transform, ps[1], ps[1])
               [] command = "LineTo" ->
                    <<SegOf("Line", last, ps[1], 0)>>
                    \o segments_of(Tail(commands), rest, transform, start, ps[1])
               [] command = "CurveTo" ->
                    <<SegOf("Cubic", last, ps[3], 0)>>
                    \o segments_of(Tail(commands), rest, transform, start, ps[3])
               [] OTHER ->
                    IF last # start
                    THEN <<SegOf("Line", last, start, 0)>>
                         \o segments_of(Tail(commands), rest, transform, start, start)
                    ELSE segments_of(Tail(commands), rest, transform, start, last)

get_path_segments(svg_node) ==
    LET segs == segments_of(svg_node.commands, svg_node.points, svg_node.transform,
                            <<0, 0>>, <<0, 0>>)
    IN  [i \in 1..Len(segs) |-> [segs[i] EXCEPT !.idx = i]]

Path_from(svg_path) == [source |-> svg_path, segments |-> get_path_segments(svg_path)]

\* PathSeg::winding of a straight segment for the point p2 / 2
seg_winding2(seg, p2) ==
    LET sx == 2 * seg.p0[1]
        sy == 2 * seg.p0[2]
        ex == 2 * seg.p1[1]
        ey == 2 * seg.p1[2]
        a == ey - sy
        b == sx - ex
        c == a * sx + b * sy
        side(sign) ==
            IF p2[1] < Min(sx, ex) THEN 0
            ELSE IF p2[1] >= Max(sx, ex) THEN sign
            ELSE IF (a * p2[1] + b * p2[2] - c) * sign <= 0 THEN sign
            ELSE 0
    IN  IF ey > sy
        THEN (IF p2[2] < sy \/ p2[2] >= ey THEN 0 ELSE side(-1))
        ELSE IF ey < sy
        THEN (IF p2[2] < ey \/ p2[2] >= sy THEN 0 ELSE side(1))
        ELSE 0

\* Shape::winding of a BezPath: the sum over its segments
RECURSIVE winding2(_, _)
winding2(segments, p2) ==
    IF Len(segments) = 0 THEN 0
    ELSE seg_winding2(Head(segments), p2) + winding2(Tail(segments), p2)

NoShape == [none |-> TRUE]

CoveringShape_new(path) ==
    IF ~can_cover(path.source) \/ Len(path.segments) = 0 THEN NoShape
    ELSE [none |-> FALSE, source |-> path.source, bezpath |-> path.segments]

covers_point2(shape, point2) ==
    test_winding(shape.source, winding2(shape.bezpath, point2))

\* a plausible slip: the test of the sources is left out
is_covered_by_any(path, shape) ==
    IF Len(path.segments) = 0 THEN FALSE
    ELSE covers_point2(shape, eval_half2(path.segments[(Len(path.segments) \div 2) + 1]))

\* a plausible slip: the first segment is taken, not the middle one
is_covered_by_first(path, shape) ==
    IF path.source.id = shape.source.id THEN FALSE
    ELSE IF Len(path.segments) = 0 THEN FALSE
    ELSE covers_point2(shape, eval_half2(path.segments[1]))

is_covered_by(path, shape) ==
    IF path.source.id = shape.source.id THEN FALSE
    ELSE IF Len(path.segments) = 0 THEN FALSE
    ELSE covers_point2(shape, eval_half2(path.segments[(Len(path.segments) \div 2) + 1]))

(***************************************************************************)
(* Paths: intersections, cuts, covering shapes and the removal of covered  *)
(* fragments.  A PathIntersections is a function from the indices of the   *)
(* intersected segments to their intersections.                            *)
(***************************************************************************)
get_path_intersections(intersected, intersecting, intersections) ==
    LET hits(i) ==
            Concat([j \in 1..Len(intersecting.segments) |->
                       get_segment_intersection(intersected.segments[i],
                                                intersecting.segments[j])])
        keys == DOMAIN intersections
                \cup {i \in 1..Len(intersected.segments) : hits(i) # <<>>}
    IN  [i \in keys |->
            (IF i \in DOMAIN intersections THEN intersections[i] ELSE <<>>) \o hits(i)]

\* cut_path: the loop over the segments; subpaths is never empty
RECURSIVE cut_path_from(_, _, _, _)
cut_path_from(path, intersections, index, subpaths) ==
    IF index > Len(path.segments) THEN subpaths
    ELSE LET n == Len(subpaths)
             push(sps, segment) ==
                 [sps EXCEPT ![Len(sps)].segments = Append(@, segment)]
         IN  IF index \notin DOMAIN intersections
             THEN cut_path_from(path, intersections, index + 1,
                                push(subpaths, path.segments[index]))
             ELSE LET subsegments == cut_segment(path.segments[index],
                                                 intersections[index])
                      started == [i \in 1..(Len(subsegments) - 1) |->
                                     [source |-> path.source,
                                      segments |-> <<subsegments[i + 1]>>]]
                  IN  cut_path_from(path, intersections, index + 1,
                                    push(subpaths, subsegments[1]) \o started)

cut_path(path, intersections) ==
    cut_path_from(path, intersections, 1, <<Path_new(path.source)>>)

\* a plausible slip: every other path cuts, whatever its place in the order
intersecting_paths_all(paths, index) ==
    SubSeq(paths, 1, index - 1) \o SubSeq(paths, index + 1, Len(paths))

\* &paths[index+1..]
intersecting_paths(paths, index) == SubSeq(paths, index + 1, Len(paths))

RECURSIVE intersections_with(_, _, _)
intersections_with(intersected, others, intersections) ==
    IF Len(others) = 0 THEN intersections
    ELSE intersections_with(intersected, Tail(others),
                            get_path_intersections(intersected, Head(others),
                                                   intersections))

EmptyIntersections == [i \in {} |-> <<>>]

\* result[i] contains intersections of paths[i], each segment's sorted
intersect_paths(paths) ==
    [index \in 1..Len(paths) |->
        LET found == intersections_with(paths[index], intersecting_paths(paths, index),
                                        EmptyIntersections)
        IN  [k \in DOMAIN found |-> SortBySegmentT(found[k])]]

\* a plausible slip: a path without intersections is skipped, not pushed
cut_paths_skip_uncut(paths, intersections) ==
    Concat([index \in 1..Len(paths) |->
               IF DOMAIN intersections[index] = {} THEN <<>>
               ELSE cut_path(paths[index], intersections[index])])

cut_paths(paths, intersections) ==
    Concat([index \in 1..Len(paths) |->
               IF DOMAIN intersections[index] = {} THEN <<paths[index]>>
               ELSE cut_path(paths[index], intersections[index])])

create_covering_shapes(paths) ==
    [index \in 1..Len(paths) |-> CoveringShape_new(paths[index])]

\* a plausible slip: every shape is tried, whatever its place in the order
candidate_shapes_all(covering_shapes, z_index) == covering_shapes

\* &covering_shapes[z_index+1..]
candidate_shapes(covering_shapes, z_index) ==
    SubSeq(covering_shapes, z_index + 2, Len(covering_shapes))

\* the filter of remove_covered_paths: what it keeps, and the z_index it used
\* for each path
RECURSIVE remove_covered_from(_, _, _, _, _)
remove_covered_from(paths, covering_shapes, z_index, last_svg_node, acc) ==
    IF Len(paths) = 0 THEN acc
    ELSE LET path == Head(paths)
             changed == last_svg_node.id # path.source.id
             z == IF changed THEN z_index + 1 ELSE z_index
             shapes == candidate_shapes(covering_shapes, z)
             covered == \E k \in 1..Len(shapes) :
                            ~shapes[k].none /\ is_covered_by(path, shapes[k])
         IN  remove_covered_from(
                 Tail(paths), covering_shapes, z,
                 IF changed THEN path.source ELSE last_svg_node,
                 [kept |-> IF covered THEN acc.kept ELSE Append(acc.kept, path),
                  z_indices |-> Append(acc.z_indices, z)])

remove_covered_paths(paths, covering_shapes) ==
    IF Len(paths) = 0 THEN [kept |-> <<>>, z_indices |-> <<>>]
    ELSE remove_covered_from(paths, covering_shapes, 0, paths[1].source,
                             [kept |-> <<>>, z_indices |-> <<>>])

autocut_paths(paths) ==
    remove_covered_paths(cut_paths(paths, intersect_paths(paths)),
                         create_covering_shapes(paths)).kept

(***************************************************************************)
(* The shapes of the geometry model, on the grid 0..GridMax.                *)
(***************************************************************************)
ShapeOf(commands, pts, fill) ==
    [commands |-> commands,
     points |-> Concat([i \in 1..Len(pts) |-> <<pts[i][1], pts[i][2]>>]),
     transform |-> <<0, 0>>, visible |-> TRUE, fill |-> fill]

\* MoveTo, LineTo ..., then ClosePath if closed
Poly(pts, closed, fill) ==
    ShapeOf([i \in 1..(Len(pts) + (IF closed THEN 1 ELSE 0)) |->
                IF i = 1 THEN "MoveTo" ELSE IF i <= Len(pts) THEN "LineTo"
                ELSE "ClosePath"],
            pts, fill)

SquareCorners == <<<<2, 2>>, <<6, 2>>, <<6, 6>>, <<2, 6>>>>

Square(fill) == Poly(SquareCorners, TRUE, fill)

SquareReversed == Poly(<<<<2, 2>>, <<2, 6>>, <<6, 6>>, <<6, 2>>>>, TRUE, "EvenOdd")

\* the square drawn twice round: winding 2 inside
SquareTwice(fill) == Poly(SquareCorners \o SquareCorners, TRUE, fill)

\* the outline of the square, filled, without a ClosePath
SquareOpen == Poly(SquareCorners \o <<<<2, 2>>>>, FALSE, "NonZero")

\* the closed square followed by an open sub-path: the ClosePath is not last
SquareThenStroke ==
    ShapeOf(<<"MoveTo", "LineTo", "LineTo", "LineTo", "ClosePath", "MoveTo", "LineTo">>,
            SquareCorners \o <<<<7, 7>>, <<8, 7>>>>, "NonZero")

StrokeInside == Poly(<<<<3, 4>>, <<5, 4>>>>, FALSE, "None")
ElbowInside == Poly(<<<<3, 3>>, <<5, 3>>, <<5, 5>>>>, FALSE, "None")
StrokeAcross == Poly(<<<<0, 4>>, <<8, 4>>>>, FALSE, "None")
ElbowAcross == Poly(<<<<4, 0>>, <<4, 4>>, <<8, 4>>>>, FALSE, "None")
\* from outside the square to inside it
ElbowInto == Poly(<<<<1, 1>>, <<1, 4>>, <<5, 4>>>>, FALSE, "None")

\* straight cubics: the control points at the thirds of the chord
CurveAcross ==
    ShapeOf(<<"MoveTo", "CurveTo">>, <<<<0, 5>>, <<1, 5>>, <<2, 5>>, <<3, 5>>>>, "None")
CurveUp ==
    ShapeOf(<<"MoveTo", "CurveTo">>, <<<<1, 3>>, <<1, 4>>, <<1, 5>>, <<1, 6>>>>, "None")

GeoShapes ==
    {Square("NonZero"), Square("EvenOdd"), Square("None"), SquareReversed,
     SquareTwice("NonZero"), SquareTwice("EvenOdd"), SquareOpen, SquareThenStroke,
     StrokeInside, ElbowInside, StrokeAcross, ElbowAcross, ElbowInto, CurveAcross,
     CurveUp}

\* the SvgPathNode of the shape drawn at place id (from 0) of the document
SvgPathNode_new(id, shape) ==
    [id |-> id, commands |-> shape.commands, points |-> shape.points,
     transform |-> shape.transform, visible |-> shape.visible, fill |-> shape.fill]

GeoDocuments == UNION {[1..n -> GeoShapes] : n \in 1..MaxPaths}

(***************************************************************************)
(* autocut_paths, one statement at a time.                                 *)
(***************************************************************************)
GeoInit ==
    /\ ac_paths \in {[i \in 1..Len(doc) |-> Path_from(SvgPathNode_new(i - 1, doc[i]))] :
                        doc \in GeoDocuments}
    /\ ac_stage = "input"
    /\ ac_intersections = <<>>
    /\ ac_cut_paths = <<>>
    /\ ac_covering_shapes = <<>>
    /\ ac_result = <<>>
    /\ ac_z_indices = <<>>

Init == GeoInit /\ ComIdle /\ query = NoQuery /\ RunIdle

IntersectPaths ==
    /\ ac_stage = "input"
    /\ ac_intersections' = intersect_paths(ac_paths)
    /\ ac_stage' = "intersected"
    /\ UNCHANGED <<ac_paths, ac_cut_paths, ac_covering_shapes, ac_result, ac_z_indices,
                   comVars, query, runVars>>

CutPaths ==
    /\ ac_stage = "intersected"
    /\ ac_cut_paths' = cut_paths(ac_paths, ac_intersections)
    /\ ac_stage' = "cut"
    /\ UNCHANGED <<ac_paths, ac_intersections, ac_covering_shapes, ac_result,
                   ac_z_indices, comVars, query, runVars>>

CreateCoveringShapes ==
    /\ ac_stage = "cut"
    /\ ac_covering_shapes' = create_covering_shapes(ac_paths)
    /\ ac_stage' = "shaped"
    /\ UNCHANGED <<ac_paths, ac_intersections, ac_cut_paths, ac_result, ac_z_indices,
                   comVars, query, runVars>>

RemoveCoveredPaths ==
    /\ ac_stage = "shaped"
    /\ LET r == remove_covered_paths(ac_cut_paths, ac_covering_shapes)
       IN  /\ ac_result' = r.kept
           /\ ac_z_indices' = r.z_indices
    /\ ac_stage' = "done"
    /\ UNCHANGED <<ac_paths, ac_intersections, ac_cut_paths, ac_covering_shapes,
                   comVars, query, runVars>>

Next ==
    \/ IntersectPaths
    \/ CutPaths
    \/ CreateCoveringShapes
    \/ RemoveCoveredPaths

Spec == Init /\ [][Next]_vars

(***************************************************************************)
(* cut_path as a function: a path and intersections of any parameters.     *)
(***************************************************************************)
CutShapes == {StrokeAcross, ElbowAcross, ElbowInside, CurveAcross}

SegLength(seg) ==
    Max(seg.p1[1] - seg.p0[1], seg.p0[1] - seg.p1[1])
    + Max(seg.p1[2] - seg.p0[2], seg.p0[2] - seg.p1[2])

\* cut parameters of a segment: its start, its first grid point, its end
CutParams(seg) == {Frac(k, SegLength(seg)) : k \in {0, 1, SegLength(seg)}}

CutRecords(seg) ==
    UNION {[1..n -> {[line_t |-> FracZero, segment_t |-> t] : t \in CutParams(seg)}] :
              n \in 1..MaxCutsPerSegment}

CutIntersections(path) ==
    UNION {{f \in [keys -> UNION {CutRecords(path.segments[i]) : i \in keys}] :
               \A i \in keys : f[i] \in CutRecords(path.segments[i])} :
           keys \in SUBSET (1..Len(path.segments))}

CutInit == ComIdle /\ GeoIdle /\ query = NoQuery /\ RunIdle

CutPath ==
    /\ query = NoQuery
    /\ \E shape \in CutShapes :
        LET path == Path_from(SvgPathNode_new(0, shape))
        IN  \E intersections \in CutIntersections(path) :
                /\ query' = [op |-> "cut_path", path |-> path,
                             intersections |-> intersections,
                             subpaths |-> cut_path(path, intersections)]
                /\ UNCHANGED <<comVars, geoVars, runVars>>

CutNext == CutPath

SpecCut == CutInit /\ [][CutNext]_vars

(***************************************************************************)
(* The coverage test as functions: test_winding, covers_point,             *)
(* is_covered_by.                                                          *)
(***************************************************************************)
\* twice the points of the grid and of the midpoints between them
Points2 == (0..(2 * GridMax)) \X (0..(2 * GridMax))

\* the path of a shape, whole, each of its segments alone, and none of them
Fragments(path) ==
    {path, Path_new(path.source)}
    \cup {[source |-> path.source, segments |-> <<path.segments[i]>>] :
             i \in 1..Len(path.segments)}

CovInit == ComIdle /\ GeoIdle /\ query = NoQuery /\ RunIdle

TestWinding ==
    /\ query = NoQuery
    /\ \E shape \in GeoShapes, winding \in (-MaxWinding)..MaxWinding :
        /\ query' = [op |-> "test_winding", node |-> SvgPathNode_new(0, shape),
                     winding |-> winding,
                     result |-> test_winding(SvgPathNode_new(0, shape), winding)]
        /\ UNCHANGED <<comVars, geoVars, runVars>>

CoversPoint ==
    /\ query = NoQuery
    /\ \E shape \in GeoShapes, point2 \in Points2 :
        LET covering == CoveringShape_new(Path_from(SvgPathNode_new(0, shape)))
        IN  /\ ~covering.none
            /\ query' = [op |-> "covers_point", shape |-> covering, point2 |-> point2,
                         winding |-> winding2(covering.bezpath, point2),
                         result |-> covers_point2(covering, point2)]
            /\ UNCHANGED <<comVars, geoVars, runVars>>

\* a fragment of the path at place 0 or 1 against the shape of the path at place 1
IsCoveredBy ==
    /\ query = NoQuery
    /\ \E shape \in GeoShapes, other \in GeoShapes, id \in {0, 1} :
        LET covering == CoveringShape_new(Path_from(SvgPathNode_new(1, shape)))
            whole == Path_from(SvgPathNode_new(id, IF id = 1 THEN shape ELSE other))
        IN  /\ ~covering.none
            /\ \E path \in Fragments(whole) :
                   query' = [op |-> "is_covered_by", path |-> path, shape |-> covering,
                             result |-> is_covered_by(path, covering)]
            /\ UNCHANGED <<comVars, geoVars, runVars>>

CovNext ==
    \/ TestWinding
    \/ CoversPoint
    \/ IsCoveredBy

SpecCov == CovInit /\ [][CovNext]_vars

(***************************************************************************)
(* src/src/svgps.rs: one run of generate_from_svg (without --autocut) or of *)
(* render_to_svg, statement by statement.  What the file system answers to *)
(* a read, a create or a write is not decided by the program: each of them *)
(* succeeds or fails.  The text of an SVG document is the result usvg       *)
(* gives for it: an error, or a view size and paths.                       *)
(***************************************************************************)
OldOutput == [exists |-> TRUE, text |-> <<"o", "l", "d">>]

SvgInputs ==
    {[valid |-> FALSE, size |-> <<0, 0>>, doc |-> <<>>]}
    \cup {[valid |-> TRUE, size |-> <<100, 50>>, doc |-> doc] :
             doc \in {<<>>} \cup {<<n>> : n \in SecondNodes}}

RunInputs(command) == IF command = "generate" THEN SvgInputs ELSE ForeignTexts

\* the command returns Err(message): `?`
Fails(message, failure) ==
    [run EXCEPT !.pc = "done", !.result = "Err", !.message = message,
                !.failure = failure]

RunInit ==
    /\ run \in {[NoRun EXCEPT !.command = c, !.pc = "start", !.before = b] :
                   c \in {"generate", "render"}, b \in {NoOutput, OldOutput}}
    /\ out_file = run.before
    /\ ComIdle /\ GeoIdle /\ query = NoQuery

\* let input = read_file(&args.input)?
ReadFile ==
    /\ run.pc = "start"
    /\ \/ run' = Fails("Cannot read file", "read")
       \/ \E input \in RunInputs(run.command) :
              run' = [run EXCEPT !.pc = "read", !.input = input]
    /\ UNCHANGED <<out_file, comVars, geoVars, query>>

\* let mut output = open_writable_file(&args.output)?: File::create makes the
\* file, or empties the one that is there
OpenWritableFile ==
    /\ run.pc = "read"
    /\ \/ /\ run' = Fails("Cannot open file", "open")
          /\ UNCHANGED out_file
       \/ /\ run' = [run EXCEPT !.pc = "opened"]
          /\ out_file' = [exists |-> TRUE, text |-> <<>>]
    /\ UNCHANGED <<comVars, geoVars, query>>

\* let svg = parse_svg(&input)?, then SvgCom::new and read_from_svg_paths
ParseSvg ==
    /\ run.pc = "opened" /\ run.command = "generate"
    /\ run' = IF ~run.input.valid THEN Fails("Cannot parse SVG", "parse")
              ELSE [run EXCEPT !.pc = "parsed",
                               !.data = read_from_svg_paths(
                                            SvgCom_new(run.input.size[1],
                                                       run.input.size[2]),
                                            run.input.doc)]
    /\ UNCHANGED <<out_file, comVars, geoVars, query>>

\* let svgcom = SvgCom::from_svgcom_str(&input)?: Ok, Err, or a panic of an
\* unwrap in read_svgcom_data
ParseSvgcom ==
    /\ run.pc = "opened" /\ run.command = "render"
    /\ LET svgcom == from_svgcom_str(run.input)
       IN  run' = CASE svgcom.status = "Ok" ->
                         [run EXCEPT !.pc = "parsed", !.data = svgcom]
                    [] svgcom.status = "Err" -> Fails("svgcom format error", "parse")
                    [] OTHER ->
                         [run EXCEPT !.pc = "done", !.result = "Panic",
                                     !.failure = "parse"]
    /\ UNCHANGED <<out_file, comVars, geoVars, query>>

\* what the successful ones of a sequence of write! calls leave in the file;
\* the Result of a write! is not looked at
RECURSIVE WriteAll(_, _, _)
WriteAll(content, texts, oks) ==
    IF Len(texts) = 0 THEN content
    ELSE WriteAll(IF Head(oks) THEN content \o Head(texts) ELSE content,
                  Tail(texts), Tail(oks))

\* write!(output, "{}", svgcom.to_string()); Ok(())
WriteSvgcom ==
    /\ run.pc = "parsed" /\ run.command = "generate"
    /\ \E oks \in [1..1 -> BOOLEAN] :
           /\ out_file' = [out_file EXCEPT
                               !.text = WriteAll(@, <<to_svgcom(run.data)>>, oks)]
           /\ run' = [run EXCEPT !.pc = "done", !.result = "Ok",
                          !.failure = IF \A i \in 1..1 : oks[i] THEN "none" ELSE "write"]
    /\ UNCHANGED <<comVars, geoVars, query>>

\* the texts of the write! calls of render_to_svg, in short: three of
\* write_svg_start, the path data, two of write_svg_end
SvgTexts(svgcom) ==
    <<<<"<?xml>", NL>>,
      <<"<svg viewBox=">> \o FmtNat(svgcom.view_size[1]) \o <<SP>>
          \o FmtNat(svgcom.view_size[2]) \o <<">", NL>>,
      <<"<path d=">>,
      format_svgcom_commands(svgcom),
      <<"/>", NL>>,
      <<"</svg>">>>>

\* write_svg_start, write!(output, svgcom.to_svg_path_data_str()),
\* write_svg_end; Ok(())
WriteSvg ==
    /\ run.pc = "parsed" /\ run.command = "render"
    /\ \E oks \in [1..Len(SvgTexts(run.data)) -> BOOLEAN] :
           /\ out_file' = [out_file EXCEPT
                               !.text = WriteAll(@, SvgTexts(run.data), oks)]
           /\ run' = [run EXCEPT !.pc = "done", !.result = "Ok",
                          !.failure = IF \A i \in DOMAIN oks : oks[i]
                                      THEN "none" ELSE "write"]
    /\ UNCHANGED <<comVars, geoVars, query>>

RunNext ==
    \/ ReadFile
    \/ OpenWritableFile
    \/ ParseSvg
    \/ ParseSvgcom
    \/ WriteSvgcom
    \/ WriteSvg

SpecRun == RunInit /\ [][RunNext]_vars

(***************************************************************************)
(* The two translations of draw commands as functions: collect_path of     *)
(* main.rs and Path::get_path_segments of svgps.rs, on paths of up to       *)
(* MaxDraw commands.                                                       *)
(***************************************************************************)
DrawNodes ==
    {NodeOf(c, <<0, 0>>) :
        c \in UNION {{c \in [1..n -> CmdChoices] : c[1][1] = "MoveTo"} : n \in 1..MaxDraw}}

DrawInit == ComIdle /\ GeoIdle /\ query = NoQuery /\ RunIdle

CollectPath ==
    /\ query = NoQuery
    /\ \E node \in DrawNodes :
           query' = [op |-> "collect_path", node |-> node,
                     output |-> collect_path(node, PathData_new)]
    /\ UNCHANGED <<comVars, geoVars, runVars>>

GetPathSegments ==
    /\ query = NoQuery
    /\ \E node \in DrawNodes :
           query' = [op |-> "get_path_segments", node |-> node,
                     segments |-> get_path_segments(node)]
    /\ UNCHANGED <<comVars, geoVars, runVars>>

DrawNext ==
    \/ CollectPath
    \/ GetPathSegments

SpecDraw == DrawInit /\ [][DrawNext]_vars

(***************************************************************************)
(* get_curve_intersection as a function, on the straight segments between  *)
(* the points of the grid 0..HitGrid.                                      *)
(***************************************************************************)
HitPoints == (0..HitGrid) \X (0..HitGrid)

HitSegments(kinds) ==
    {SegOf(kind, ends[1], ends[2], 1) :
        kind \in kinds, ends \in {e \in HitPoints \X HitPoints : e[1] # e[2]}}

HitInit == ComIdle /\ GeoIdle /\ query = NoQuery /\ RunIdle

GetCurveIntersection ==
    /\ query = NoQuery
    /\ \E intersected \in HitSegments({"Line", "Cubic"}),
          intersecting \in HitSegments({"Cubic"}) :
           query' = [op |-> "get_curve_intersection", intersected |-> intersected,
                     intersecting |-> intersecting,
                     result |-> get_curve_intersection(intersected, intersecting)]
    /\ UNCHANGED <<comVars, geoVars, runVars>>

HitNext == GetCurveIntersection

SpecHit == HitInit /\ [][HitNext]_vars

(***************************************************************************)
(* Properties of the autocut.                                              *)
(***************************************************************************)
StrokeOnly(node) == node.fill = "None"

\* the corners [x0, y0, x1, y1] of a node that is one axis-parallel rectangle
\* drawn once round and closed
CornersOf(node) ==
    [x0 |-> Min(node.points[1], node.points[5]), y0 |-> Min(node.points[2], node.points[6]),
     x1 |-> Max(node.points[1], node.points[5]), y1 |-> Max(node.points[2], node.points[6])]

SimpleSquare(node) ==
    /\ node.commands = <<"MoveTo", "LineTo", "LineTo", "LineTo", "ClosePath">>
    /\ node.transform = <<0, 0>>
    /\ LET p == [i \in 1..4 |-> <<node.points[2 * i - 1], node.points[2 * i]>>]
       IN  /\ p[1][1] # p[3][1] /\ p[1][2] # p[3][2]
           /\ \/ p[2] = <<p[3][1], p[1][2]>> /\ p[4] = <<p[1][1], p[3][2]>>
              \/ p[2] = <<p[1][1], p[3][2]>> /\ p[4] = <<p[3][1], p[1][2]>>

FilledSquare(node) == SimpleSquare(node) /\ node.fill # "None"

\* scale * (x, y) lies strictly inside / strictly outside the rectangle
StrictlyInside(box, p, scale) ==
    /\ scale * box.x0 < p[1] /\ p[1] < scale * box.x1
    /\ scale * box.y0 < p[2] /\ p[2] < scale * box.y1

StrictlyOutside(box, p, scale) ==
    \/ p[1] < scale * box.x0 \/ p[1] > scale * box.x1
    \/ p[2] < scale * box.y0 \/ p[2] > scale * box.y1

\* the square contains all of the path, which has something to contain
ContainsAll(square, path) ==
    /\ Len(path.segments) > 0
    /\ \A k \in 1..Len(path.segments) :
           /\ StrictlyInside(CornersOf(square), path.segments[k].p0, 1)
           /\ StrictlyInside(CornersOf(square), path.segments[k].p1, 1)

\* C1: order sensitivity of autocut_paths.  For a stroke-only path A and a
\* closed filled square B that contains all of A, autocut_paths([A, B]) is B
\* alone, with no fragment of A, and autocut_paths([B, A]) is B and A, whole
\* and unchanged.
C1_OrderSensitivity ==
    (ac_stage = "done" /\ Len(ac_paths) = 2) =>
        /\ (/\ StrokeOnly(ac_paths[1].source)
            /\ FilledSquare(ac_paths[2].source)
            /\ ContainsAll(ac_paths[2].source, ac_paths[1]))
               => ac_result = <<ac_paths[2]>>
        /\ (/\ FilledSquare(ac_paths[1].source)
            /\ StrokeOnly(ac_paths[2].source)
            /\ ContainsAll(ac_paths[1].source, ac_paths[2]))
               => ac_result = ac_paths

C1_Witness ==
    /\ ac_stage = "done" /\ Len(ac_paths) = 2
    /\ StrokeOnly(ac_paths[1].source)
    /\ FilledSquare(ac_paths[2].source)
    /\ ContainsAll(ac_paths[2].source, ac_paths[1])
    /\ Len(ac_paths[1].segments) = 2
    /\ ac_result = <<ac_paths[2]>>

\* the number of intersections of segment k of path i with all segments of path j
HitsOf(i, k, j) ==
    Len(Concat([s \in 1..Len(ac_paths[j].segments) |->
                   get_segment_intersection(ac_paths[i].segments[k],
                                            ac_paths[j].segments[s])]))

RECURSIVE SumTo(_, _)
SumTo(f, n) == IF n = 0 THEN 0 ELSE f[n] + SumTo(f, n - 1)

\* the covering shape of input path j, looked up afresh
LaterShapeCovers(f, j) ==
    /\ ~CoveringShape_new(ac_paths[j]).none
    /\ ac_paths[j].source.id # ac_cut_paths[f].source.id
    /\ Len(ac_cut_paths[f].segments) > 0
    /\ covers_point2(CoveringShape_new(ac_paths[j]),
                     eval_half2(ac_cut_paths[f].segments[
                                    (Len(ac_cut_paths[f].segments) \div 2) + 1]))

KeptFragments ==
    {f \in 1..Len(ac_cut_paths) :
        ~\E j \in (ac_cut_paths[f].source.id + 2)..Len(ac_paths) : LaterShapeCovers(f, j)}

RECURSIVE PickFragments(_, _)
PickFragments(f, keep) ==
    IF f > Len(ac_cut_paths) THEN <<>>
    ELSE (IF f \in keep THEN <<ac_cut_paths[f]>> ELSE <<>>) \o PickFragments(f + 1, keep)

\* C2: only later paths act on earlier ones.  Path i is cut only at its
\* intersections with the paths j > i; the z_index used for a fragment is the
\* input index of its source path, and the fragment is tested only against
\* the covering shapes of the paths j > i; the last path is returned exactly
\* once and unchanged.
C2_OnlyLaterPathsAct ==
    ac_stage = "done" =>
        LET n == Len(ac_paths)
        IN  /\ \A i \in 1..n :
                   /\ ac_paths[i].source.id = i - 1
                   /\ \A k \in 1..Len(ac_paths[i].segments) :
                          LET later == [j \in 1..n |-> IF j > i THEN HitsOf(i, k, j) ELSE 0]
                              found == IF k \in DOMAIN ac_intersections[i]
                                       THEN Len(ac_intersections[i][k]) ELSE 0
                          IN  found = SumTo(later, n)
            /\ Len(ac_z_indices) = Len(ac_cut_paths)
            /\ \A f \in 1..Len(ac_cut_paths) :
                   ac_z_indices[f] = ac_cut_paths[f].source.id
            /\ ac_result = PickFragments(1, KeptFragments)
            /\ ac_intersections[n] = EmptyIntersections
            /\ {f \in 1..Len(ac_result) : ac_result[f].source.id = n - 1}
                   = {Len(ac_result)}
            /\ ac_result[Len(ac_result)] = ac_paths[n]

\* a later square cuts an earlier stroke, which also crosses it, and covers a
\* fragment of it; the stroke does not cut the square though it crosses it
C2_Witness ==
    /\ ac_stage = "done" /\ Len(ac_paths) = 2
    /\ DOMAIN ac_intersections[1] # {}
    /\ \E k \in 1..Len(ac_paths[2].segments) : HitsOf(2, k, 1) > 0
    /\ Len(ac_cut_paths) = 4
    /\ Len(ac_result) = 3
    /\ ac_result[3] = ac_paths[2]

\* every segment's records ascend by segment_t, within the segment
SortedRecords(intersections) ==
    \A k \in DOMAIN intersections :
        /\ \A r \in 1..Len(intersections[k]) : InUnit(intersections[k][r].segment_t)
        /\ \A r \in 1..(Len(intersections[k]) - 1) :
               FracLe(intersections[k][r].segment_t, intersections[k][r + 1].segment_t)

RecordCount(intersections) ==
    SumTo([k \in 1..Len(query.path.segments) |->
              IF k \in DOMAIN intersections THEN Len(intersections[k]) ELSE 0],
          Len(query.path.segments))

\* the pieces of all sub-paths, in output order
PiecesOf(subpaths) == Concat([f \in 1..Len(subpaths) |-> subpaths[f].segments])

\* the pieces cover every original segment once, in order, by consecutive
\* ascending parameter ranges [0,t1],[t1,t2],...,[tn,1]
ContinuousParametrization(path, pieces) ==
    /\ Len(pieces) > 0
    /\ pieces[1].idx = 1 /\ FracEq(pieces[1].t0, FracZero)
    /\ pieces[Len(pieces)].idx = Len(path.segments)
    /\ FracEq(pieces[Len(pieces)].t1, FracOne)
    /\ \A q \in 1..Len(pieces) :
           /\ FracLe(pieces[q].t0, pieces[q].t1)
           /\ pieces[q].kind = path.segments[pieces[q].idx].kind
           /\ pieces[q].p0 = eval(path.segments[pieces[q].idx], pieces[q].t0)
           /\ pieces[q].p1 = eval(path.segments[pieces[q].idx], pieces[q].t1)
    /\ \A q \in 1..(Len(pieces) - 1) :
           \/ /\ pieces[q + 1].idx = pieces[q].idx
              /\ FracEq(pieces[q + 1].t0, pieces[q].t1)
           \/ /\ pieces[q + 1].idx = pieces[q].idx + 1
              /\ FracEq(pieces[q].t1, FracOne)
              /\ FracEq(pieces[q + 1].t0, FracZero)

\* C3: cut completeness of cut_path.  For a path with at least one segment
\* and k intersection records, each segment's sorted ascending by segment_t,
\* cut_path returns exactly 1 + k sub-paths of the same source, each with at
\* least one segment; they have (original segment count) + k segments in all,
\* which in output order are consecutive parameter ranges that cover every
\* original segment once, in the original order.
C3_CutCompleteness ==
    (/\ query.op = "cut_path"
     /\ Len(query.path.segments) >= 1
     /\ SortedRecords(query.intersections))
        => LET k == RecordCount(query.intersections)
           IN  /\ Len(query.subpaths) = 1 + k
               /\ \A f \in 1..Len(query.subpaths) :
                      /\ Len(query.subpaths[f].segments) >= 1
                      /\ query.subpaths[f].source = query.path.source
               /\ Len(PiecesOf(query.subpaths)) = Len(query.path.segments) + k
               /\ ContinuousParametrization(query.path, PiecesOf(query.subpaths))

\* two records on distinct segments, both strictly inside their segments
C3_Witness ==
    /\ query.op = "cut_path"
    /\ Len(query.path.segments) = 2
    /\ DOMAIN query.intersections = {1, 2}
    /\ \A k \in {1, 2} :
           /\ Len(query.intersections[k]) = 1
           /\ FracLt(FracZero, query.intersections[k][1].segment_t)
           /\ FracLt(query.intersections[k][1].segment_t, FracOne)
    /\ Len(query.subpaths) = 3
    /\ Len(PiecesOf(query.subpaths)) = 4

\* C4: self-exclusion.  Path::is_covered_by(shape) is false whenever the
\* path's source is the shape's source, whatever the segments of the path and
\* whatever the winding number of its points.
C4_SelfExclusion ==
    (query.op = "is_covered_by" /\ query.path.source = query.shape.source)
        => query.result = FALSE

\* a fragment of the shape's own path whose representative point the shape covers
C4_Witness ==
    /\ query.op = "is_covered_by"
    /\ query.path.source = query.shape.source
    /\ Len(query.path.segments) = 1
    /\ winding2(query.shape.bezpath, eval_half2(query.path.segments[1])) = 1
    /\ query.shape.source.fill = "NonZero"
    /\ query.result = FALSE

IsOdd(w) == (IF w < 0 THEN -w ELSE w) % 2 = 1

FillRuleCovers(fill, w) ==
    \/ fill = "NonZero" /\ w # 0
    \/ fill = "EvenOdd" /\ IsOdd(w)

\* C5: the fill-rule mapping of the coverage test.  For every integer winding
\* number, NonZero covers iff it is not 0, EvenOdd covers iff it is odd and no
\* fill covers nothing; a point strictly inside a simple closed square has
\* winding +1 or -1 and is covered under both rules, a point outside has
\* winding 0 and is not covered.
C5_FillRuleMapping ==
    /\ query.op = "test_winding"
           => query.result = FillRuleCovers(query.node.fill, query.winding)
    /\ query.op = "covers_point"
           => /\ query.result = FillRuleCovers(query.shape.source.fill, query.winding)
              /\ (/\ SimpleSquare(query.shape.source)
                  /\ StrictlyInside(CornersOf(query.shape.source), query.point2, 2))
                     => (query.winding \in {1, -1} /\ query.result = TRUE)
              /\ (/\ SimpleSquare(query.shape.source)
                  /\ StrictlyOutside(CornersOf(query.shape.source), query.point2, 2))
                     => (query.winding = 0 /\ query.result = FALSE)

\* a negative odd winding number under EvenOdd
C5_Witness ==
    /\ query.op = "covers_point"
    /\ query.shape.source.fill = "EvenOdd"
    /\ SimpleSquare(query.shape.source)
    /\ StrictlyInside(CornersOf(query.shape.source), query.point2, 2)
    /\ query.winding = -1
    /\ query.result = TRUE

ContainsClose(node) == \E c \in 1..Len(node.commands) : node.commands[c] = "ClosePath"

EndsWithClose(node) ==
    Len(node.commands) > 0 /\ node.commands[Len(node.commands)] = "ClosePath"

\* the fragments that remove_covered_paths discarded
Discarded == (1..Len(ac_cut_paths)) \ KeptFragments

\* C6 as stated: a CoveringShape is built exactly for the paths with a fill,
\* at least one segment and a close-path command anywhere in their command
\* list.
C6_ClosedAnywhere ==
    ac_stage \in {"shaped", "done"} =>
        \A i \in 1..Len(ac_paths) :
            (~ac_covering_shapes[i].none)
                <=> (/\ ContainsClose(ac_paths[i].source)
                     /\ ac_paths[i].source.fill # "None"
                     /\ Len(ac_paths[i].segments) >= 1)

\* C6: can_cover is true iff the shape has a fill and is closed, where closed
\* means that the last command of the shape is a close-path.  A CoveringShape
\* is built exactly for such paths with at least one segment, and every
\* discarded fragment is covered by the shape of such a path drawn later: a
\* path that is unfilled, or whose last command is not a close-path, never
\* causes a fragment of another path to be discarded.
C6_ClosedAtEnd ==
    ac_stage \in {"shaped", "done"} =>
        /\ \A i \in 1..Len(ac_paths) :
               /\ can_cover(ac_paths[i].source)
                      <=> (/\ EndsWithClose(ac_paths[i].source)
                           /\ ac_paths[i].source.fill # "None")
               /\ (~ac_covering_shapes[i].none)
                      <=> (/\ EndsWithClose(ac_paths[i].source)
                           /\ ac_paths[i].source.fill # "None"
                           /\ Len(ac_paths[i].segments) >= 1)
               /\ (~ac_covering_shapes[i].none)
                      => /\ ac_covering_shapes[i].source = ac_paths[i].source
                         /\ ac_covering_shapes[i].bezpath = ac_paths[i].segments
        /\ ac_stage = "done" =>
               /\ Len(ac_result) = Len(ac_cut_paths) - Cardinality(Discarded)
               /\ \A f \in Discarded :
                      \E j \in 1..Len(ac_paths) :
                          /\ EndsWithClose(ac_paths[j].source)
                          /\ ac_paths[j].source.fill # "None"
                          /\ ac_paths[j].source # ac_cut_paths[f].source
                          /\ LaterShapeCovers(f, j)

\* a stroke inside a filled square whose close-path is followed by an open
\* sub-path: no shape is built and the stroke is kept
C6_Witness ==
    /\ ac_stage = "done" /\ Len(ac_paths) = 2
    /\ ContainsClose(ac_paths[2].source)
    /\ ~EndsWithClose(ac_paths[2].source)
    /\ ac_paths[2].source.fill # "None"
    /\ ac_covering_shapes[2].none
    /\ Len(ac_cut_paths[1].segments) > 0
    /\ winding2(ac_paths[2].segments,
                eval_half2(ac_cut_paths[1].segments[
                               (Len(ac_cut_paths[1].segments) \div 2) + 1])) # 0
    /\ ac_result = ac_paths

(***************************************************************************)
(* Properties of the text format.                                          *)
(***************************************************************************)
IsUintToken(tok) ==
    LET body == IF Len(tok) > 0 /\ tok[1] = "+" THEN Tail(tok) ELSE tok
    IN  Len(body) > 0 /\ \A i \in 1..Len(body) : IsDigit(body[i])

\* the header line holds exactly 4 unsigned integers
FourUints(line) ==
    LET toks == split_whitespace(line)
    IN  Len(toks) = 4 /\ \A i \in 1..4 : IsUintToken(toks[i])

\* header field 3 is the number of letters on line 2, field 4 the number of
\* coordinates on line 3
CountsAgree(lines) ==
    LET toks == split_whitespace(lines[1])
    IN  /\ ParseU32(toks[3]).val = Len(lines[2])
        /\ ParseU32(toks[4]).val = Len(split_whitespace(lines[3]))

HeaderRefused(text) ==
    LET lines == Lines(text)
    IN  IF Len(lines) < 3 THEN TRUE
        ELSE IF ~FourUints(lines[1]) THEN TRUE
        ELSE ~CountsAgree(lines)

\* C7: SvgCom::from_svgcom_str returns Err, and no SvgCom, for every text with
\* fewer than 3 lines, with a first line that is not exactly 4 unsigned
\* integers, or with a number of command letters (line 2) or of coordinates
\* (line 3) that differs from header field 3 or 4.
C7_HeaderValidation ==
    (parsed.reader = "svgcom" /\ HeaderRefused(file))
        => (parsed.status = "Err" /\ parsed.commands = <<>>)

\* a well-formed header whose counts disagree with the data lines, refused
C7_Witness ==
    /\ parsed.reader = "svgcom"
    /\ Len(Lines(file)) >= 3
    /\ FourUints(Lines(file)[1])
    /\ ~CountsAgree(Lines(file))
    /\ Len(Lines(file)[2]) = ParseU32(split_whitespace(Lines(file)[1])[3]).val
    /\ parsed.status = "Err"

\* C8: reading svgcom text fails with an error whenever the command line holds
\* a letter that is not one of M, L, C: no such letter is accepted as a
\* command, none is skipped (stated for SvgCom::from_svgcom_str, whose command
\* line is line 2).
C8_UnknownLetterFatal ==
    (/\ parsed.reader = "svgcom"
     /\ Len(Lines(file)) >= 3
     /\ \E i \in 1..Len(Lines(file)[2]) : Lines(file)[2][i] \notin {"M", "L", "C"})
        => parsed.status = "Err"

\* C9: from_svgcom_str(x.to_svgcom()) succeeds with the view size, the
\* commands in their order and the coordinates of x, for every SvgCom x made of
\* move/line/curve/close elements (the empty list included); the header counts
\* that format_svgcom_metrics writes are those of the two lines that
\* format_svgcom_commands and format_svgcom_points write.
C9_RoundTrip ==
    written.writer = "svgcom" =>
        /\ Len(Lines(file)) = 3
        /\ FourUints(Lines(file)[1])
        /\ CountsAgree(Lines(file))
        /\ parsed.reader = "svgcom" =>
              /\ parsed.status = "Ok"
              /\ parsed.view_size = written.view_size
              /\ parsed.commands = written.commands

\* a curve, a close and a negative coordinate written and read back
C9_Witness ==
    /\ written.writer = "svgcom"
    /\ parsed.reader = "svgcom"
    /\ parsed.status = "Ok"
    /\ \E i \in 1..Len(written.commands) : written.commands[i].el = "CurveTo"
    /\ \E i \in 1..Len(written.commands) : written.commands[i].el = "ClosePath"
    /\ parsed.commands = written.commands

\* C10: every writer emits and every reader expects line 1 = WIDTH HEIGHT
\* N_COMMANDS N_COORDS, line 2 = the command letters, line 3 = the coordinates,
\* so a file written by any writer of the repository is read back by any
\* reader with the commands and the coordinates it was written with.
C10_OneLayout ==
    written.writer \in {"svgcom", "main"} =>
        /\ Len(Lines(file)) >= 3 /\ FourUints(Lines(file)[1]) /\ CountsAgree(Lines(file))
        /\ parsed.reader # "none" =>
              (parsed.status = "Ok" /\ parsed.commands = written.commands)

\* the number of coordinates that a line of letters calls for: 2 for each M
\* and L, 6 for each C
RECURSIVE CoordsCalledFor(_)
CoordsCalledFor(letters) ==
    IF Len(letters) = 0 THEN 0
    ELSE (CASE Head(letters) \in {"M", "L"} -> 2
            [] Head(letters) = "C" -> 6
            [] OTHER -> 0)
         + CoordsCalledFor(Tail(letters))

\* C11: the command line of the serialized text holds only the letters M, L
\* and C, whatever mix of MoveTo, LineTo, CurveTo and ClosePath the shapes are
\* drawn with, and the coordinate line holds 2 coordinates for each M and L
\* and 6 for each C (svgcom.rs writes the letters on line 2, main.rs on
\* line 3).
C11_OnlyMLC ==
    /\ written.writer = "svgcom" =>
           /\ \A i \in 1..Len(Lines(file)[2]) : Lines(file)[2][i] \in {"M", "L", "C"}
           /\ Len(split_whitespace(Lines(file)[3])) = CoordsCalledFor(Lines(file)[2])
    /\ written.writer = "main" =>
           /\ \A i \in 1..Len(Lines(file)[3]) : Lines(file)[3][i] \in {"M", "L", "C"}
           /\ Len(split_whitespace(Lines(file)[2])) = CoordsCalledFor(Lines(file)[3])

\* C12: every failure of generate or render (reading the input, opening or
\* writing the output, parsing the document or the svgcom text) ends the
\* command with an error message returned to the caller and leaves no partial
\* output: the output file is as it was before the command, neither created
\* nor emptied nor partly written.
C12_NoPartialOutput ==
    (run.pc = "done" /\ run.failure # "none")
        => /\ run.result = "Err"
           /\ run.message # ""
           /\ out_file = run.before

\* what a sequence of draw commands draws: an element [letter, pts, p0, p1]
\* for each MoveTo, LineTo and CurveTo, and for each ClosePath issued when the
\* current point differs from the start point of the sub-path one line from
\* the current point to the start point, which becomes the current point
RECURSIVE Drawn(_, _, _, _)
Drawn(commands, coords, start, current) ==
    IF Len(commands) = 0 THEN <<>>
    ELSE LET command == Head(commands)
             n == CommandArity(command)
             ps == [k \in 1..(n \div 2) |-> <<coords[2 * k - 1], coords[2 * k]>>]
             rest == SubSeq(coords, n + 1, Len(coords))
         IN  CASE command = "MoveTo" ->
                    <<[letter |-> "M", pts |-> ps, p0 |-> ps[1], p1 |-> ps[1]]>>
                    \o Drawn(Tail(commands), rest, ps[1], ps[1])
               [] command = "LineTo" ->
                    <<[letter |-> "L", pts |-> ps, p0 |-> current, p1 |-> ps[1]]>>
                    \o Drawn(Tail(commands), rest, start, ps[1])
               [] command = "CurveTo" ->
                    <<[letter |-> "C", pts |-> ps, p0 |-> current, p1 |-> ps[3]]>>
                    \o Drawn(Tail(commands), rest, start, ps[3])
               [] OTHER ->
                    (IF current = start THEN <<>>
                     ELSE <<[letter |-> "L", pts |-> <<start>>, p0 |-> current,
                             p1 |-> start]>>)
                    \o Drawn(Tail(commands), rest, start, start)

DrawnOf(node) == Drawn(node.commands, node.points, <<0, 0>>, <<0, 0>>)

DrawnSegments(node) ==
    SelectSeq(DrawnOf(node), LAMBDA e : e.letter # "M")

\* C13: a ClosePath issued when the current point is the start point of the
\* sub-path emits nothing, and one issued when they differ emits exactly one
\* line from the current point to the start point, in collect_path and in
\* Path::get_path_segments, for every sequence of draw commands, several
\* ClosePath commands and several sub-paths included.
C13_ZeroLengthCloseDropped ==
    /\ query.op = "collect_path" =>
           /\ query.output.commands
                  = [k \in 1..Len(DrawnOf(query.node)) |-> DrawnOf(query.node)[k].letter]
           /\ query.output.coordinates
                  = Concat([k \in 1..Len(DrawnOf(query.node)) |->
                               Concat(DrawnOf(query.node)[k].pts)])
    /\ query.op = "get_path_segments" =>
           /\ Len(query.segments) = Len(DrawnSegments(query.node))
           /\ \A k \in 1..Len(query.segments) :
                  /\ query.segments[k].kind
                         = (IF DrawnSegments(query.node)[k].letter = "C"
                            THEN "Cubic" ELSE "Line")
                  /\ query.segments[k].p0 = DrawnSegments(query.node)[k].p0
                  /\ query.segments[k].p1 = DrawnSegments(query.node)[k].p1

\* input path i has no intersection with any path drawn after it
NoLaterHits(i) ==
    \A k \in 1..Len(ac_paths[i].segments) :
        \A j \in (i + 1)..Len(ac_paths) : HitsOf(i, k, j) = 0

FragmentsOf(fragments, i) ==
    {f \in 1..Len(fragments) : fragments[f].source = ac_paths[i].source}

\* C14 as stated: a path without intersections with any later path is in the
\* output of autocut_paths exactly once, with its original segments, whatever
\* covering shapes come later.
C14_RetainedWhateverCovers ==
    ac_stage = "done" =>
        \A i \in 1..Len(ac_paths) :
            NoLaterHits(i) =>
                \E f \in 1..Len(ac_result) :
                    /\ FragmentsOf(ac_result, i) = {f}
                    /\ ac_result[f] = ac_paths[i]

\* C14: a path without intersections with any later path leaves cut_paths
\* exactly once and with its original segments; it is in the output of
\* autocut_paths exactly once and unchanged if no covering shape of a later
\* path covers its representative point, and not at all if one does.
C14_RetainedUnlessCovered ==
    \A i \in 1..Len(ac_paths) :
        NoLaterHits(i) =>
            /\ ac_stage \in {"cut", "shaped", "done"} =>
                   \E f \in 1..Len(ac_cut_paths) :
                       /\ FragmentsOf(ac_cut_paths, i) = {f}
                       /\ ac_cut_paths[f] = ac_paths[i]
            /\ ac_stage = "done" =>
                   LET f == CHOOSE f \in FragmentsOf(ac_cut_paths, i) : TRUE
                   IN  IF \E j \in (i + 1)..Len(ac_paths) : LaterShapeCovers(f, j)
                       THEN FragmentsOf(ac_result, i) = {}
                       ELSE \E g \in 1..Len(ac_result) :
                                /\ FragmentsOf(ac_result, i) = {g}
                                /\ ac_result[g] = ac_paths[i]

\* an uncut path before a covering shape that does not cover it: kept whole
C14_Witness ==
    /\ ac_stage = "done" /\ Len(ac_paths) = 2
    /\ NoLaterHits(1)
    /\ ~ac_covering_shapes[2].none
    /\ ac_intersections[1] = EmptyIntersections
    /\ ac_result = ac_paths

\* C15 as stated: the point that decides whether a fragment is covered is the
\* midpoint of the first segment of the fragment; a fragment without segments
\* is not covered.
C15_FirstSegmentMidpoint ==
    (query.op = "is_covered_by" /\ query.path.source # query.shape.source)
        => query.result
               = (/\ Len(query.path.segments) > 0
                  /\ FillRuleCovers(query.shape.source.fill,
                                    winding2(query.shape.bezpath,
                                             eval_half2(query.path.segments[1]))))

\* C15: the point that decides whether a fragment of another path is covered
\* is the midpoint (parameter 0.5) of the segment at index len / 2, counted
\* from 0: the middle segment, which is the first one only in a fragment of
\* one segment; a fragment without segments is not covered.
C15_MiddleSegmentMidpoint ==
    (query.op = "is_covered_by" /\ query.path.source # query.shape.source)
        => LET len == Len(query.path.segments)
           IN  query.result
                   = (/\ len > 0
                      /\ FillRuleCovers(query.shape.source.fill,
                             winding2(query.shape.bezpath,
                                      eval_half2(query.path.segments[(len \div 2) + 1]))))

\* a fragment of two segments, the first outside the shape, the second inside
C15_Witness ==
    /\ query.op = "is_covered_by"
    /\ query.path.source # query.shape.source
    /\ Len(query.path.segments) = 2
    /\ winding2(query.shape.bezpath, eval_half2(query.path.segments[1])) = 0
    /\ winding2(query.shape.bezpath, eval_half2(query.path.segments[2])) # 0
    /\ query.result = TRUE

\* the two boxes share no point
BoxesDisjoint(a, b) ==
    \/ a.x1 < b.x0 \/ b.x1 < a.x0
    \/ a.y1 < b.y0 \/ b.y1 < a.y0

\* the computation of get_curve_intersection with the bounding-box test left out
CurveIntersectionUnpruned(intersected, intersecting) ==
    IF intersected.kind = "Line"
    THEN get_reverse_line_intersection(intersected, intersecting)
    ELSE LET points == curve_to_points(intersecting)
         IN  Concat([i \in 1..(Len(points) - 1) |->
                        intersect_line(intersected,
                                       SegOf("Line", points[i], points[i + 1], 0))])

\* C16: the bounding-box test of get_curve_intersection changes no result: it
\* gives the empty result only when the two boxes share no point, so the
\* result is that of the same computation without the test, also for boxes of
\* zero width or height and boxes that only touch; segments with disjoint
\* boxes have no intersections.
C16_PruningPreserves ==
    query.op = "get_curve_intersection" =>
        /\ query.result = CurveIntersectionUnpruned(query.intersected, query.intersecting)
        /\ BoxesDisjoint(bounding_box(query.intersected),
                         bounding_box(query.intersecting))
               => query.result = <<>>

\* C17: SvgCom::from_svgcom_str returns Ok or Err for every text and never
\* aborts; it returns Ok only when line 3 holds 2 coordinates for each M and L
\* and 6 for each C of line 2, and Err when the coordinates are too few or
\* too many for the commands, also when both counts are those of the header.
C17_TotalAndChecked ==
    parsed.reader = "svgcom" =>
        /\ parsed.status \in {"Ok", "Err"}
        /\ parsed.status = "Ok" =>
               /\ Len(Lines(file)) >= 3
               /\ Len(split_whitespace(Lines(file)[3])) = CoordsCalledFor(Lines(file)[2])
        /\ (/\ Len(Lines(file)) >= 3
            /\ Len(split_whitespace(Lines(file)[3])) # CoordsCalledFor(Lines(file)[2]))
               => parsed.status = "Err"

====
